---- MODULE Spec2Model ----
(***************************************************************************)
(* Model of the tool-cabinet WebSocket hub (src/app/websocket_server.py)   *)
(* and of the history collaborator (src/app/record_handler.py).            *)
(*                                                                         *)
(* Every handler is a coroutine on one event loop: the code between two    *)
(* awaits runs atomically, and every await (receive_text, send_text) is a  *)
(* point where the other connections' coroutines may run.  One action of   *)
(* the model is one such atomic stretch of a handler.                      *)
(*                                                                         *)
(* Status strings: "Normal" = 正常, "Low" = 低库存, "Empty" = 无库存.      *)
(* Weights are whole grams; unit_weight is a whole number of grams.        *)
(***************************************************************************)
EXTENDS Integers, Sequences, FiniteSets, TLC

\* ---------------------------------------------------------------- bounds
NumConns == 2
MaxMsgs == 2
MaxQuantity == 2
NumSockets == 4
MaxRecords == 4

Conns == 1..NumConns
Quantities == 0..MaxQuantity
Weights == {-150, 150, 350, 1200}
UnitWeights == {0, 100}

\* ------------------------------------------------- program constants
total_quantity == 10
threshold == 2
DefaultUnitWeight == 100
DefaultQuantity == 1

VARIABLES
    toolExists,          \* the row Tool.id == 1 is in the database
    current_quantity,    \* Tool.current_quantity (committed)
    status,              \* Tool.status (committed)
    unit_weight,         \* Tool.unit_weight (committed)
    last_updated,        \* Tool.last_updated (committed), a logical clock
    records,             \* the borrow_records table, oldest first
    active_connections,  \* ConnectionManager.active_connections
    open,                \* open[c]: the client side of c has not closed
    pc,                  \* where the coroutine of connection c is
    budget,              \* messages the clients may still send, in total
    frame,               \* locals of the handler running for connection c
    bidx,                \* position of c's broadcast loop in the list
    out,                 \* the send_text calls of the last step, in order
    outcome,             \* history: how the last message of c was handled
    initial_quantity,    \* history: current_quantity of the initial state
    call                 \* history: the last call of RegistryNext or
                         \* HistoryNext: operation, argument, and whether
                         \* it found what it looked for

toolVars == <<toolExists, current_quantity, status, unit_weight, last_updated>>
vars == <<toolExists, current_quantity, status, unit_weight, last_updated,
          records, active_connections, open, pc, budget, frame, bidx, out, outcome,
          initial_quantity, call>>

\* ------------------------------------------------------- pure helpers
Min(a, b) == IF a < b THEN a ELSE b

\* mutation: the low-stock boundary taken strictly
StatusOfStrict(q) ==
    IF q <= 0 THEN "Empty"
    ELSE IF q < threshold THEN "Low"
    ELSE "Normal"

\* the if/elif/else that follows every mutation
StatusOf(q) ==
    IF q <= 0 THEN "Empty"
    ELSE IF q <= threshold THEN "Low"
    ELSE "Normal"

\* mutation: the quotient rounded up
EstimatedQuantityCeil(w, u) ==
    IF w >= 0 THEN (w + u - 1) \div u ELSE -((-w) \div u)

\* int(current_weight / unit_weight): int() truncates toward zero
EstimatedQuantity(w, u) ==
    IF w >= 0 THEN w \div u ELSE -((-w) \div u)

\* mutation: the upper limit forgotten
ClampQuantityNoCeiling(q) == IF q < 0 THEN 0 ELSE q

\* the clamp of sensor_update
ClampQuantity(q) ==
    IF q < 0 THEN 0
    ELSE IF q > total_quantity THEN total_quantity
    ELSE q

\* mutation: a unit_weight <= 0 is replaced by one gram
HealedUnitWeightOne(u) == IF u <= 0 THEN 1 ELSE u

\* if tool.unit_weight <= 0: tool.unit_weight = 100.0
HealedUnitWeight(u) == IF u <= 0 THEN DefaultUnitWeight ELSE u

\* mutation: old_quantity read after the mutation
OldQuantityAfter(before, after) == after

\* old_quantity = tool.current_quantity, taken before the mutation
OldQuantity(before, after) == before

\* mutation: the element at the front is dropped, whichever it is
RemoveHead(s, x) == IF s = <<>> THEN <<>> ELSE Tail(s)

\* list.remove(x): drops the first occurrence
RECURSIVE RemoveFirst(_, _)
RemoveFirst(s, x) ==
    IF s = <<>> THEN <<>>
    ELSE IF Head(s) = x THEN Tail(s)
    ELSE <<Head(s)>> \o RemoveFirst(Tail(s), x)

InList(s, x) == \E i \in 1..Len(s) : s[i] = x

\* ------------------------------------------------------------ messages
\* The locals of a handler.  history, stamp and healed are history fields:
\* what the collaborator did, the value of last_updated the handler
\* committed, and whether sensor_update took its unit_weight <= 0 branch.
NoFrame ==
    [action |-> "none", kind |-> "none", has |-> FALSE, arg |-> 0,
     old |-> 0, new |-> 0,
     status |-> "none", nbcast |-> 0, targets |-> <<>>, snap |-> {},
     recorded |-> FALSE, history |-> "none", stamp |-> 0,
     healed |-> FALSE]

\* replies built in an except branch, or for an unknown action
ErrorKinds ==
    {"decode_error", "unknown", "borrow_error", "return_error",
     "sensor_error", "status_error"}

\* mutation: every reply that is not a pong is sent with the type "tool"
ReplyTypeTool(kind) == IF kind = "pong" THEN "system" ELSE "tool"

\* the "type" field of a unicast reply
ReplyType(kind) ==
    IF kind \in ErrorKinds THEN "error"
    ELSE IF kind = "pong" THEN "system"
    ELSE "tool"

\* the unicast reply built from the handler's locals
ReplyOf(f) ==
    [type |-> ReplyType(f.kind),
     action |-> f.action,
     kind |-> f.kind,
     success |-> f.kind \in {"borrow_ok", "return_ok", "sensor_ok", "status_ok"},
     old |-> f.old, new |-> f.new, status |-> f.status]

\* broadcast_msg
NotificationOf(f) ==
    [type |-> "notification", action |-> "inventory_changed",
     kind |-> "inventory_changed", success |-> TRUE,
     old |-> f.old, new |-> f.new, status |-> f.status]

\* websocket.send_text(...) wrapped in try/except: a closed transport raises,
\* the error is logged and nothing is delivered
Send(d, msg) == [to |-> d, msg |-> msg, delivered |-> open[d]]

NoCall == [op |-> "none", conn |-> 0, registered |-> FALSE]

\* ---------------------------------------------------------------- Init
\* Nothing in the startup code creates the Tool row: it is in the database
\* file or it is not.  A row has the column defaults of models.py.
Init ==
    /\ toolExists \in BOOLEAN
    /\ current_quantity = total_quantity
    /\ status = "Normal"
    /\ unit_weight \in UnitWeights
    /\ last_updated = 0
    /\ records = <<>>
    /\ active_connections = <<>>
    /\ open = [c \in Conns |-> TRUE]
    /\ pc = [c \in Conns |-> "new"]
    /\ budget = MaxMsgs
    /\ frame = [c \in Conns |-> NoFrame]
    /\ bidx = [c \in Conns |-> 0]
    /\ out = <<>>
    /\ outcome = [c \in Conns |-> "none"]
    /\ initial_quantity = current_quantity
    /\ call = NoCall

\* ------------------------------------------------- ConnectionManager
\* mutation: the websocket is appended twice
AppendedTwice(list, c) == list \o <<c, c>>

\* self.active_connections.append(websocket)
Appended(list, c) == Append(list, c)

\* connect: await websocket.accept(); active_connections.append(websocket)
connect(c) ==
    /\ pc[c] = "new"
    /\ open[c]
    /\ active_connections' = Appended(active_connections, c)
    /\ pc' = [pc EXCEPT ![c] = "recv"]
    /\ out' = <<>>
    /\ UNCHANGED <<toolVars, records, open, budget, frame, bidx, outcome,
                   initial_quantity, call>>

\* the client closes its side of the transport (environment step)
TransportClose(c) ==
    /\ pc[c] \in {"recv", "reply", "bcast"}
    /\ open[c]
    /\ open' = [open EXCEPT ![c] = FALSE]
    /\ out' = <<>>
    /\ UNCHANGED <<toolVars, records, active_connections, pc, budget, frame,
                   bidx, outcome, initial_quantity, call>>

\* mutation: the last element is dropped, whoever is asked for
disconnectPop(list, c) ==
    IF list = <<>> THEN list ELSE SubSeq(list, 1, Len(list) - 1)

\* disconnect: if websocket in active_connections: remove it
disconnect(list, c) ==
    IF InList(list, c) THEN RemoveFirst(list, c) ELSE list

\* receive_text raises WebSocketDisconnect: manager.disconnect, loop ends
WebSocketDisconnect(c) ==
    /\ pc[c] = "recv"
    /\ ~open[c]
    /\ active_connections' = disconnect(active_connections, c)
    /\ pc' = [pc EXCEPT ![c] = "closed"]
    /\ out' = <<>>
    /\ UNCHANGED <<toolVars, records, open, budget, frame, bidx, outcome,
                   initial_quantity, call>>

\* --------------------------------------------------- handler pieces
\* mutation: a missing quantity counts as 0
QuantityOfMissingZero(m) == IF m.has THEN m.val ELSE 0

\* message.get("quantity", 1)
QuantityOf(m) == IF m.has THEN m.val ELSE DefaultQuantity

NoArg == [has |-> FALSE, val |-> 0]

\* if quantity <= 0
InvalidQuantity(q) == q <= 0

\* mutation: the stock check off by one
InsufficientStockOffByOne(cur, q) == cur + 1 < q

\* if tool.current_quantity < quantity
InsufficientStock(cur, q) == cur < q

\* mutation: the capacity check off by one
WouldExceedCapacityOffByOne(cur, q) == cur + q > total_quantity + 1

\* if tool.current_quantity + quantity > tool.total_quantity
WouldExceedCapacity(cur, q) == cur + q > total_quantity

\* mutation: the decrement lost
AfterBorrowLost(cur, q) == cur

\* tool.current_quantity -= quantity
AfterBorrow(cur, q) == cur - q

\* tool.current_quantity += quantity
AfterReturn(cur, q) == cur + q

\* mutation: the sensor handler broadcasts unconditionally
SensorChangedAlways(old, new) == TRUE

\* if old_quantity != tool.current_quantity
SensorChanged(old, new) == old # new

\* mutation: every borrow or return reply is followed by a broadcast
BroadcastsAfterFailure(f) ==
    \/ f.action \in {"borrow_tool", "return_tool"}
    \/ f.kind = "sensor_ok" /\ SensorChanged(f.old, f.new)

\* which replies are followed by manager.broadcast(broadcast_msg)
Broadcasts(f) ==
    \/ f.kind \in {"borrow_ok", "return_ok"}
    \/ f.kind = "sensor_ok" /\ SensorChanged(f.old, f.new)

\* What a call of the history collaborator can do to the handler's session:
\*   "recorded"         the row is written, the session goes on;
\*   "failed"           it raises with the session still usable (the query of
\*                      create_return_record fails, or refresh does);
\*   "session_invalid"  its db.commit() raises while flushing the row: the
\*                      Session has rolled back, every loaded object is
\*                      expired, and until Session.rollback() is called (no
\*                      code calls it) any further load through it raises.
CollaboratorOutcomes == {"recorded", "failed", "session_invalid"}

\* The handler after "except Exception: logger.error(...)" around the
\* collaborator: it builds the response from tool.current_quantity and
\* tool.status.  On an invalid session that load raises, the handler's outer
\* "except Exception" runs and the reply is the error reply.
KindAfterCollaborator(okKind, errKind, h) ==
    IF h = "session_invalid" THEN errKind ELSE okKind

\* create_borrow_record: one open record
AddBorrowRecord(recs, q) ==
    Append(recs, [action |-> "borrow", quantity |-> q, open |-> TRUE])

\* mutation: the oldest open borrow record is taken
OldestOpen(recs, i) ==
    IF \E j \in 1..i : recs[j].action = "borrow" /\ recs[j].open
    THEN CHOOSE j \in 1..i :
            /\ recs[j].action = "borrow" /\ recs[j].open
            /\ \A k \in 1..(j - 1) : ~(recs[k].action = "borrow" /\ recs[k].open)
    ELSE 0

\* get_current_borrow's query: the most recent open borrow record, 0 if none
RECURSIVE LastOpen(_, _)
LastOpen(recs, i) ==
    IF i = 0 THEN 0
    ELSE IF recs[i].action = "borrow" /\ recs[i].open THEN i
    ELSE LastOpen(recs, i - 1)

\* create_return_record: close the most recent open borrow record, or add a
\* closed return record when there is none
AddReturnRecord(recs, q) ==
    LET i == LastOpen(recs, Len(recs)) IN
    IF i > 0
    THEN [recs EXCEPT ![i] = [action |-> "return", quantity |-> @.quantity,
                              open |-> FALSE]]
    ELSE Append(recs, [action |-> "return", quantity |-> q, open |-> FALSE])

\* a handler stops at "await manager.send_personal_message(response, ...)"
Respond(c, f) ==
    /\ frame' = [frame EXCEPT ![c] = f]
    /\ pc' = [pc EXCEPT ![c] = "reply"]
    /\ budget' = budget - 1
    /\ outcome' = [outcome EXCEPT ![c] = f.kind]
    /\ out' = <<>>

\* a reply that follows no mutation: m is the argument of the request
Reject(c, action, kind, m) ==
    /\ Respond(c, [NoFrame EXCEPT !.action = action, !.kind = kind,
                                  !.has = m.has, !.arg = m.val,
                                  !.old = current_quantity,
                                  !.new = current_quantity])
    /\ UNCHANGED <<toolVars, records>>

\* mutation: a message is read while the previous one is still being handled
CanReceiveAnytime(c) == pc[c] \in {"recv", "reply", "bcast"} /\ budget > 0

\* "data = await websocket.receive_text()" at the top of the while loop: the
\* next message is read when the handling of the previous one has returned
CanReceive(c) == pc[c] = "recv" /\ budget > 0

\* ------------------------------------------------------------ handlers
\* borrow_tool, up to its first await
borrow_tool(c, m) ==
    /\ CanReceive(c)
    /\ LET q == QuantityOf(m)
           a == [has |-> m.has, val |-> q] IN
       IF InvalidQuantity(q) THEN Reject(c, "borrow_tool", "invalid_quantity", a)
       ELSE IF ~toolExists THEN Reject(c, "borrow_tool", "no_tool", a)
       ELSE IF InsufficientStock(current_quantity, q)
            THEN Reject(c, "borrow_tool", "insufficient", a)
       ELSE LET new == AfterBorrow(current_quantity, q) IN
            /\ current_quantity' = new
            /\ status' = StatusOf(new)
            /\ last_updated' = last_updated + 1
            /\ UNCHANGED <<toolExists, unit_weight>>
            \* try: create_borrow_record(db, quantity); a failure is logged
            /\ \E h \in CollaboratorOutcomes :
                 /\ records' = IF h = "recorded"
                                THEN AddBorrowRecord(records, q) ELSE records
                 /\ Respond(c, [NoFrame EXCEPT
                        !.action = "borrow_tool",
                        !.kind = KindAfterCollaborator("borrow_ok",
                                                       "borrow_error", h),
                        !.has = m.has, !.arg = q,
                        !.old = OldQuantity(current_quantity, new),
                        !.new = new, !.status = StatusOf(new),
                        !.recorded = TRUE, !.history = h,
                        !.stamp = last_updated + 1])
    /\ UNCHANGED <<active_connections, open, bidx, initial_quantity, call>>

\* return_tool, up to its first await
return_tool(c, m) ==
    /\ CanReceive(c)
    /\ LET q == QuantityOf(m)
           a == [has |-> m.has, val |-> q] IN
       IF InvalidQuantity(q) THEN Reject(c, "return_tool", "invalid_quantity", a)
       ELSE IF ~toolExists THEN Reject(c, "return_tool", "no_tool", a)
       ELSE IF WouldExceedCapacity(current_quantity, q)
            THEN Reject(c, "return_tool", "exceed", a)
       ELSE LET new == AfterReturn(current_quantity, q) IN
            /\ current_quantity' = new
            /\ status' = StatusOf(new)
            /\ last_updated' = last_updated + 1
            /\ UNCHANGED <<toolExists, unit_weight>>
            \* try: create_return_record(db, quantity); a failure is logged
            /\ \E h \in CollaboratorOutcomes :
                 /\ records' = IF h = "recorded"
                                THEN AddReturnRecord(records, q) ELSE records
                 /\ Respond(c, [NoFrame EXCEPT
                        !.action = "return_tool",
                        !.kind = KindAfterCollaborator("return_ok",
                                                       "return_error", h),
                        !.has = m.has, !.arg = q,
                        !.old = OldQuantity(current_quantity, new),
                        !.new = new, !.status = StatusOf(new),
                        !.recorded = TRUE, !.history = h,
                        !.stamp = last_updated + 1])
    /\ UNCHANGED <<active_connections, open, bidx, initial_quantity, call>>

\* sensor_update, up to its first await
sensor_update(c, m) ==
    /\ CanReceive(c)
    /\ IF ~m.has THEN Reject(c, "sensor_update", "missing_weight", m)
       ELSE IF ~toolExists THEN Reject(c, "sensor_update", "no_tool", m)
       ELSE LET u == HealedUnitWeight(unit_weight)
                est == EstimatedQuantity(m.val, u)
                new == ClampQuantity(est) IN
            /\ unit_weight' = u
            /\ current_quantity' = new
            /\ status' = StatusOf(new)
            /\ last_updated' = last_updated + 1
            /\ UNCHANGED <<toolExists, records>>
            /\ Respond(c, [NoFrame EXCEPT
                    !.action = "sensor_update", !.kind = "sensor_ok",
                    !.has = m.has, !.arg = m.val,
                    !.old = OldQuantity(current_quantity, new), !.new = new,
                    !.status = StatusOf(new), !.stamp = last_updated + 1,
                    !.healed = (u # unit_weight)])
    /\ UNCHANGED <<active_connections, open, bidx, initial_quantity, call>>

\* mutation: the capacity reported in place of the stock
ReportedQuantityTotal(cur, total) == total

\* "current_quantity": tool.current_quantity in the reply of get_tool_status
ReportedQuantity(cur, total) == cur

\* get_tool_status, up to its await
get_tool_status(c) ==
    /\ CanReceive(c)
    /\ IF ~toolExists THEN Reject(c, "get_status", "no_tool", NoArg)
       ELSE /\ Respond(c, [NoFrame EXCEPT
                    !.action = "get_status", !.kind = "status_ok",
                    !.old = ReportedQuantity(current_quantity, total_quantity),
                    !.new = ReportedQuantity(current_quantity, total_quantity),
                    !.status = status])
            /\ UNCHANGED <<toolVars, records>>
    /\ UNCHANGED <<active_connections, open, bidx, initial_quantity, call>>

\* process_websocket_message: action == "ping"
ping(c) ==
    /\ CanReceive(c)
    /\ Reject(c, "pong", "pong", NoArg)
    /\ UNCHANGED <<active_connections, open, bidx, initial_quantity, call>>

\* process_websocket_message: the else branch
unknown_action(c) ==
    /\ CanReceive(c)
    /\ Reject(c, "unknown", "unknown", NoArg)
    /\ UNCHANGED <<active_connections, open, bidx, initial_quantity, call>>

\* handle_websocket_connection: json.loads raises JSONDecodeError
JSONDecodeError(c) ==
    /\ CanReceive(c)
    /\ Reject(c, "none", "decode_error", NoArg)
    /\ UNCHANGED <<active_connections, open, bidx, initial_quantity, call>>

\* json.loads succeeds with a value that is no object (a list, a string, a
\* number, null): message.get raises AttributeError in
\* process_websocket_message, outside every inner try; the "except Exception"
\* of handle_websocket_connection logs, calls manager.disconnect and the
\* coroutine ends, so the server closes the transport.  Nothing is sent.
NonObjectPayload(c) ==
    /\ CanReceive(c)
    /\ active_connections' = disconnect(active_connections, c)
    /\ pc' = [pc EXCEPT ![c] = "closed"]
    /\ open' = [open EXCEPT ![c] = FALSE]
    /\ budget' = budget - 1
    /\ outcome' = [outcome EXCEPT ![c] = "not_object"]
    /\ out' = <<>>
    /\ UNCHANGED <<toolVars, records, frame, bidx, initial_quantity, call>>

\* mutation: a failed send takes the recipient out of the registry
RegistryAfterSendDrops(list, d, delivered) ==
    IF delivered THEN list ELSE disconnect(list, d)

\* "except Exception as e: logger.error(...)" around send_text, in
\* send_personal_message and in broadcast: the registry is left as it is
RegistryAfterSend(list, d, delivered) == list

\* mutation: the first failed send ends the loop
NextIndexStopsAtFailure(i, n, delivered) == IF delivered THEN i + 1 ELSE n + 1

\* broadcast's for loop after the send to element i of n: the try/except is
\* inside the loop body, so a failed send is logged and the loop goes on
NextIndex(i, n, delivered) == i + 1

\* the awaited send_personal_message completes; the handler runs on to its
\* next await: the first send_text of broadcast, or receive_text
send_personal_message(c) ==
    /\ pc[c] = "reply"
    /\ LET f == frame[c]
           reply == Send(c, ReplyOf(f)) IN
       IF Broadcasts(f) /\ Len(active_connections) > 0
       THEN LET t == active_connections[1] IN
            /\ out' = <<reply, Send(t, NotificationOf(f))>>
            /\ frame' = [frame EXCEPT ![c] =
                    [f EXCEPT !.nbcast = @ + 1, !.targets = <<t>>,
                              !.snap = {active_connections[i] :
                                        i \in 1..Len(active_connections)}]]
            /\ bidx' = [bidx EXCEPT ![c] =
                    NextIndex(1, Len(active_connections), open[t])]
            /\ pc' = [pc EXCEPT ![c] = "bcast"]
            /\ active_connections' =
                    RegistryAfterSend(
                        RegistryAfterSend(active_connections, c, open[c]),
                        t, open[t])
       ELSE /\ out' = <<reply>>
            /\ frame' = [frame EXCEPT ![c] = NoFrame]
            /\ bidx' = bidx
            /\ pc' = [pc EXCEPT ![c] = "recv"]
            /\ active_connections' =
                    RegistryAfterSend(active_connections, c, open[c])
    /\ UNCHANGED <<toolVars, records, open, budget, outcome,
                   initial_quantity, call>>

\* broadcast: one send_text completes; the for loop takes the next element
\* of active_connections, or ends and the handler returns to receive_text
broadcast(c) ==
    /\ pc[c] = "bcast"
    /\ IF bidx[c] <= Len(active_connections)
       THEN LET t == active_connections[bidx[c]] IN
            /\ out' = <<Send(t, NotificationOf(frame[c]))>>
            /\ frame' = [frame EXCEPT ![c].targets = Append(@, t)]
            /\ bidx' = [bidx EXCEPT ![c] =
                    NextIndex(@, Len(active_connections), open[t])]
            /\ pc' = pc
            /\ active_connections' =
                    RegistryAfterSend(active_connections, t, open[t])
       ELSE /\ out' = <<>>
            /\ frame' = [frame EXCEPT ![c] = NoFrame]
            /\ bidx' = [bidx EXCEPT ![c] = 0]
            /\ pc' = [pc EXCEPT ![c] = "recv"]
            /\ active_connections' = active_connections
    /\ UNCHANGED <<toolVars, records, open, budget, outcome,
                   initial_quantity, call>>

\* ------------------------------------------------------ specification
QuantityArgs == [has : {TRUE}, val : Quantities] \cup {NoArg}
WeightArgs == [has : {TRUE}, val : Weights] \cup {NoArg}

Next ==
    \E c \in Conns :
        \/ connect(c)
        \/ TransportClose(c)
        \/ WebSocketDisconnect(c)
        \/ \E m \in QuantityArgs : borrow_tool(c, m)
        \/ \E m \in QuantityArgs : return_tool(c, m)
        \/ \E m \in WeightArgs : sensor_update(c, m)
        \/ get_tool_status(c)
        \/ ping(c)
        \/ unknown_action(c)
        \/ JSONDecodeError(c)
        \/ NonObjectPayload(c)
        \/ send_personal_message(c)
        \/ broadcast(c)

Spec == Init /\ [][Next]_vars

\* N connections, all registered, each about to send one borrow_tool for one
\* unit, against a tool row holding any quantity
InitRace ==
    /\ toolExists = TRUE
    /\ current_quantity \in 0..total_quantity
    /\ status = StatusOf(current_quantity)
    /\ unit_weight = DefaultUnitWeight
    /\ last_updated = 0
    /\ records = <<>>
    /\ active_connections = [i \in 1..NumConns |-> i]
    /\ open = [c \in Conns |-> TRUE]
    /\ pc = [c \in Conns |-> "recv"]
    /\ budget = NumConns
    /\ frame = [c \in Conns |-> NoFrame]
    /\ bidx = [c \in Conns |-> 0]
    /\ out = <<>>
    /\ outcome = [c \in Conns |-> "none"]
    /\ initial_quantity = current_quantity
    /\ call = NoCall

\* (the race is run against a database whose session stays valid)
RaceBorrow(c) ==
    /\ outcome[c] = "none"
    /\ borrow_tool(c, [has |-> TRUE, val |-> 1])
    /\ frame'[c].history # "session_invalid"

NextRace ==
    \E c \in Conns :
        \/ RaceBorrow(c)
        \/ send_personal_message(c)
        \/ broadcast(c)

SpecRace == InitRace /\ [][NextRace]_vars

\* The hub with internal errors.  A handler raises before its commit has
\* succeeded: the argument is not a number (the comparison, or the division,
\* raises TypeError), the query fails, or db.commit() itself fails.  The
\* handler's "except Exception" sends the error reply and "finally:
\* db.close()" discards what the session had changed.
HandledActions == {"borrow_tool", "return_tool", "sensor_update", "get_status"}

ErrorKindOf(action) ==
    CASE action = "borrow_tool" -> "borrow_error"
      [] action = "return_tool" -> "return_error"
      [] action = "sensor_update" -> "sensor_error"
      [] OTHER -> "status_error"

HandlerException(c, action) ==
    /\ CanReceive(c)
    /\ Reject(c, action, ErrorKindOf(action), NoArg)
    /\ UNCHANGED <<active_connections, open, bidx, initial_quantity, call>>

NextFaults ==
    \/ Next
    \/ \E c \in Conns : \E action \in HandledActions :
            HandlerException(c, action)

SpecFaults == Init /\ [][NextFaults]_vars

\* The history collaborator on its own: its two functions called in any
\* order on one borrow_records table, oldest record first (borrow_time is
\* the time of the call).
RecordQuantities == 1..MaxQuantity

create_borrow_record(q) ==
    /\ Len(records) < MaxRecords
    /\ records' = AddBorrowRecord(records, q)
    /\ call' = [op |-> "create_borrow_record", conn |-> q,
                registered |-> FALSE]
    /\ UNCHANGED <<toolVars, active_connections, open, pc, budget, frame,
                   bidx, out, outcome, initial_quantity>>

create_return_record(q) ==
    /\ LastOpen(records, Len(records)) > 0 \/ Len(records) < MaxRecords
    /\ records' = AddReturnRecord(records, q)
    /\ call' = [op |-> "create_return_record", conn |-> q,
                registered |-> LastOpen(records, Len(records)) > 0]
    /\ UNCHANGED <<toolVars, active_connections, open, pc, budget, frame,
                   bidx, out, outcome, initial_quantity>>

HistoryNext ==
    \E q \in RecordQuantities :
        create_borrow_record(q) \/ create_return_record(q)

SpecHistory == Init /\ [][HistoryNext]_vars

\* The ConnectionManager on its own: its two methods called in any order on
\* NumSockets websocket objects.  A websocket object is connected at most
\* once (handle_websocket_connection calls connect once per object), so the
\* list never holds one twice; disconnect is called for any object, in the
\* list or not.
Sockets == 1..NumSockets

ManagerConnect(s) ==
    /\ ~InList(active_connections, s)
    /\ active_connections' = Appended(active_connections, s)
    /\ call' = [op |-> "connect", conn |-> s, registered |-> FALSE]
    /\ UNCHANGED <<toolVars, records, open, pc, budget, frame, bidx, out,
                   outcome, initial_quantity>>

ManagerDisconnect(s) ==
    /\ active_connections' = disconnect(active_connections, s)
    /\ call' = [op |-> "disconnect", conn |-> s,
                registered |-> InList(active_connections, s)]
    /\ UNCHANGED <<toolVars, records, open, pc, budget, frame, bidx, out,
                   outcome, initial_quantity>>

RegistryNext ==
    \E s \in Sockets : ManagerConnect(s) \/ ManagerDisconnect(s)

SpecRegistry == Init /\ [][RegistryNext]_vars

\* ================================================================ claims
\* a handler of connection c takes the step from receive_text to its reply
Received(c) == pc[c] = "recv" /\ pc'[c] = "reply"

\* the handler of connection c takes a step that sends its reply
Replied(c) == pc[c] = "reply" /\ pc'[c] # "reply"

\* the handler of connection c returns to receive_text
Completed(c) == pc[c] \in {"reply", "bcast"} /\ pc'[c] = "recv"

ToolUnchanged == UNCHANGED <<current_quantity, status, last_updated>>

ValidationFailures == {"invalid_quantity", "insufficient", "exceed"}

\* C1: whatever borrow, return and sensor requests the connections interleave,
\* the stored quantity of an existing tool stays within 0..total_quantity.
QuantityInRange ==
    toolExists => 0 <= current_quantity /\ current_quantity <= total_quantity

\* a borrow has taken the last unit
QuantityInRangeWitness ==
    \E c \in Conns : /\ frame[c].kind = "borrow_ok"
                      /\ frame[c].old > 0
                      /\ current_quantity = 0

BorrowTooManyFails ==
    [][\A c \in Conns :
        (/\ Received(c)
         /\ toolExists
         /\ frame'[c].action = "borrow_tool"
         /\ frame'[c].arg > current_quantity)
        => /\ frame'[c].kind = "insufficient"
           /\ ~ReplyOf(frame'[c]).success
           /\ frame'[c].new = current_quantity
           /\ ToolUnchanged]_vars

\* a borrow of two units has been refused with one unit in stock
BorrowTooManyFailsWitness ==
    \E c \in Conns : /\ pc[c] = "reply"
                      /\ frame[c].kind = "insufficient"
                      /\ frame[c].arg = 2
                      /\ current_quantity = 1

\* C4: a return_tool request that would lift the quantity above
\* total_quantity is answered with the would-exceed-capacity failure and
\* leaves quantity, status and last_updated as they were.
ReturnTooManyFails ==
    [][\A c \in Conns :
        (/\ Received(c)
         /\ toolExists
         /\ frame'[c].action = "return_tool"
         /\ frame'[c].arg > 0
         /\ current_quantity + frame'[c].arg > total_quantity)
        => /\ frame'[c].kind = "exceed"
           /\ ~ReplyOf(frame'[c]).success
           /\ ToolUnchanged]_vars

\* a return of two units has been refused with total_quantity - 1 in stock
ReturnTooManyFailsWitness ==
    \E c \in Conns : /\ pc[c] = "reply"
                      /\ frame[c].kind = "exceed"
                      /\ frame[c].arg = 2
                      /\ current_quantity = total_quantity - 1

\* C5: a borrow or return rejected by validation changes no tool state and no
\* history record, and its handler sends exactly one message, the failure
\* reply to the requester: nothing to another connection, no broadcast.
RejectionIsUnicastOnly ==
    [][\A c \in Conns :
        /\ (Received(c) /\ frame'[c].kind \in ValidationFailures)
           => /\ ToolUnchanged
              /\ records' = records
              /\ ~frame'[c].recorded
              /\ out' = <<>>
        /\ (Replied(c) /\ frame[c].kind \in ValidationFailures)
           => /\ out' = <<Send(c, ReplyOf(frame[c]))>>
              /\ ~out'[1].msg.success
              /\ out'[1].msg.type # "notification"
              /\ pc'[c] = "recv"
              /\ frame[c].nbcast = 0
              /\ records' = records
              /\ ToolUnchanged]_vars

\* the failure reply of a rejected request has just been sent, while the
\* other connection is registered
RejectionIsUnicastOnlyWitness ==
    \E c \in Conns :
        /\ outcome[c] \in ValidationFailures
        /\ pc[c] = "recv"
        /\ Len(out) = 1
        /\ out[1].to = c
        /\ out[1].msg.kind \in ValidationFailures
        /\ Len(active_connections) = NumConns

\* C6 (under SpecRace): once each of the N connections has had its request
\* for one unit handled, exactly min(N, C) of them were answered with success,
\* the others with the insufficient-stock failure, and the quantity is
\* C - min(N, C), C being the quantity the race started with.
BorrowRaceOutcome ==
    (\A c \in Conns : outcome[c] # "none") =>
        LET k == Min(NumConns, initial_quantity) IN
        /\ Cardinality({c \in Conns : outcome[c] = "borrow_ok"}) = k
        /\ Cardinality({c \in Conns : outcome[c] = "insufficient"}) = NumConns - k
        /\ current_quantity = initial_quantity - k

\* the race is over with a winner and a loser
BorrowRaceOutcomeWitness ==
    /\ \A c \in Conns : outcome[c] # "none" /\ pc[c] = "recv"
    /\ \E c \in Conns : outcome[c] = "borrow_ok"
    /\ \E c \in Conns : outcome[c] = "insufficient"

Committed ==
    {"borrow_ok", "return_ok", "sensor_ok", "borrow_error", "return_error"}

\* C7: quantity, status and last_updated change only together, in the one
\* step of one handler that reads and commits; the old quantity that handler
\* reports is the quantity the previous commit left, and a borrow or return
\* moves the quantity by exactly its amount (no update is lost).
MutationsAreSerialized ==
    [][(current_quantity' # current_quantity \/ status' # status
            \/ last_updated' # last_updated)
        => \E c \in Conns :
              /\ Received(c)
              /\ frame'[c].kind \in Committed
              /\ last_updated' = last_updated + 1
              /\ frame'[c].old = current_quantity
              /\ frame'[c].new = current_quantity'
              /\ frame'[c].status = status'
              /\ frame'[c].kind = "borrow_ok"
                    => current_quantity' = current_quantity - frame'[c].arg
              /\ frame'[c].kind = "return_ok"
                    => current_quantity' = current_quantity + frame'[c].arg
              /\ \A d \in Conns \ {c} : frame'[d] = frame[d]]_vars

\* two handlers are in flight at once, the second having committed on top of
\* the first
MutationsAreSerializedWitness ==
    \E c, d \in Conns :
        /\ c # d
        /\ pc[c] \in {"reply", "bcast"} /\ pc[d] \in {"reply", "bcast"}
        /\ frame[c].kind \in Committed /\ frame[d].kind \in Committed
        /\ frame[c].old # frame[c].new
        /\ frame[d].old = frame[c].new
        /\ frame[d].new # frame[d].old
        /\ current_quantity = frame[d].new

\* C8: when the handler of a successful borrow or return finishes, it has
\* called broadcast once and that broadcast has sent the notification exactly
\* once to every connection that was registered when broadcast was called,
\* the requester included.
SuccessBroadcastReachesAll ==
    [][\A c \in Conns :
        (Completed(c) /\ frame[c].kind \in {"borrow_ok", "return_ok"})
        => /\ frame[c].nbcast = 1
           /\ c \in frame[c].snap
           /\ \A d \in frame[c].snap :
                 Cardinality({i \in 1..Len(frame[c].targets) :
                                 frame[c].targets[i] = d}) = 1]_vars

\* C9: the handler of an accepted sensor_update replies with success, and
\* calls broadcast (once) exactly when the clamped new quantity differs from
\* the quantity it found; with equal quantities it sends the reply only.
SensorBroadcastIffChanged ==
    [][\A c \in Conns :
        /\ (Received(c) /\ frame'[c].kind = "sensor_ok")
           => /\ frame'[c].old = current_quantity
              /\ frame'[c].new = current_quantity'
        /\ (Replied(c) /\ frame[c].kind = "sensor_ok")
           => /\ out'[1] = Send(c, ReplyOf(frame[c]))
              /\ out'[1].msg.success
              /\ IF frame[c].old # frame[c].new
                 THEN /\ pc'[c] = "bcast"
                      /\ frame'[c].nbcast = 1
                      /\ Len(out') = 2
                      /\ out'[2].msg = NotificationOf(frame[c])
                 ELSE /\ pc'[c] = "recv"
                      /\ frame[c].nbcast = 0
                      /\ Len(out') = 1
        /\ (Completed(c) /\ frame[c].kind = "sensor_ok" /\ pc[c] = "bcast")
           => frame[c].nbcast = 1 /\ frame[c].old # frame[c].new]_vars

\* a sensor_update that left the quantity as it was has been answered, and
\* its handler is back at receive_text without a broadcast
SensorBroadcastIffChangedWitness ==
    \E c \in Conns :
        /\ outcome[c] = "sensor_ok"
        /\ pc[c] = "recv"
        /\ Len(out) = 1
        /\ out[1].to = c
        /\ out[1].msg.kind = "sensor_ok"
        /\ out[1].msg.old = out[1].msg.new

\* C10: a sensor_update carrying a weight w, on an existing tool, is accepted
\* and commits floor(w / unit_weight) clamped into 0..total_quantity, where a
\* unit_weight <= 0 counts as the default; the prior quantity plays no part.
SensorCommitsClampedFloor ==
    [][\A c \in Conns :
        (/\ Received(c)
         /\ toolExists
         /\ frame'[c].action = "sensor_update"
         /\ frame'[c].has)
        => LET u == IF unit_weight <= 0 THEN DefaultUnitWeight ELSE unit_weight
               floor == frame'[c].arg \div u
               clamped == IF floor < 0 THEN 0
                          ELSE IF floor > total_quantity THEN total_quantity
                          ELSE floor
           IN /\ frame'[c].kind = "sensor_ok"
              /\ ReplyOf(frame'[c]).success
              /\ current_quantity' = clamped
              /\ frame'[c].new = clamped]_vars

\* 350 g at 100 g a unit has been committed as 3, from another quantity
SensorCommitsClampedFloorWitness ==
    \E c \in Conns :
        /\ pc[c] = "reply"
        /\ frame[c].kind = "sensor_ok"
        /\ frame[c].arg = 350
        /\ frame[c].old # 3
        /\ current_quantity = 3


\* C11: when the history collaborator fails after a borrow or return has
\* committed, the committed quantity stays, the requester is sent the success
\* reply it would have been sent had the collaborator succeeded, and the
\* inventory_changed broadcast follows.
CollaboratorFailureIsSwallowed ==
    [][\A c \in Conns :
        /\ (/\ Received(c)
            /\ frame'[c].recorded
            /\ frame'[c].history # "recorded")
           => /\ current_quantity' = frame'[c].new
              /\ frame'[c].new # frame'[c].old
              /\ ReplyOf(frame'[c]) =
                    ReplyOf([frame'[c] EXCEPT
                        !.history = "recorded",
                        !.kind = IF frame'[c].action = "borrow_tool"
                                 THEN "borrow_ok" ELSE "return_ok"])
              /\ Broadcasts(frame'[c])
        /\ (/\ Replied(c)
            /\ frame[c].recorded
            /\ frame[c].history # "recorded")
           => /\ current_quantity' = current_quantity
              /\ out'[1] = Send(c, ReplyOf(frame[c]))
              /\ out'[1].msg.success
              /\ pc'[c] = "bcast"
              /\ frame'[c].nbcast = 1]_vars


\* C12: a payload that is not JSON changes no inventory state and no
\* registration; its sender, still registered, is sent exactly one reply, of
\* type "error", no broadcast follows, and the handler is back at
\* receive_text for the next message.
MalformedPayloadIsAnswered ==
    [][\A c \in Conns :
        /\ (Received(c) /\ frame'[c].kind = "decode_error")
           => /\ ToolUnchanged
              /\ records' = records
              /\ active_connections' = active_connections
              /\ InList(active_connections', c)
              /\ out' = <<>>
        /\ (Replied(c) /\ frame[c].kind = "decode_error")
           => /\ out' = <<Send(c, ReplyOf(frame[c]))>>
              /\ out'[1].msg.type = "error"
              /\ ~out'[1].msg.success
              /\ frame[c].nbcast = 0
              /\ pc'[c] = "recv"
              /\ ToolUnchanged
              /\ records' = records
              /\ active_connections' = active_connections
              /\ InList(active_connections', c)]_vars

\* the error reply to a malformed payload has just been delivered; its
\* sender is registered, at receive_text, and a further message may come
MalformedPayloadIsAnsweredWitness ==
    \E c \in Conns :
        /\ outcome[c] = "decode_error"
        /\ pc[c] = "recv"
        /\ out = <<[to |-> c, msg |-> out[1].msg, delivered |-> TRUE]>>
        /\ out[1].msg.kind = "decode_error"
        /\ InList(active_connections, c)
        /\ budget > 0


\* C13: a message that decodes (to a value of any shape) and names no known
\* action is answered with a reply of type "error", and its sender stays
\* registered with its receive loop running.
UnknownActionIsAnswered ==
    [][\A c \in Conns :
        /\ (/\ pc[c] = "recv" /\ pc'[c] # "recv"
            /\ budget' < budget
            /\ outcome'[c] \in {"unknown", "not_object"})
           => /\ pc'[c] = "reply"
              /\ ReplyOf(frame'[c]).type = "error"
              /\ InList(active_connections', c)
        /\ (Replied(c) /\ frame[c].kind = "unknown")
           => /\ out' = <<Send(c, ReplyOf(frame[c]))>>
              /\ out'[1].msg.type = "error"
              /\ pc'[c] = "recv"
              /\ InList(active_connections', c)]_vars


\* a step of the handler of c that sends a notification which is not delivered
FailedBroadcastSend(c) ==
    /\ pc[c] \in {"reply", "bcast"}
    /\ pc'[c] # pc[c] \/ bidx'[c] # bidx[c]
    /\ \E i \in 1..Len(out') : /\ out'[i].msg.type = "notification"
                                /\ ~out'[i].delivered

\* C14: a send of broadcast that fails leaves the handler in the broadcast
\* loop, at the element after the failed one, with its reply kind and the
\* registry as they were; and the loop sends to whatever element it stands
\* at, so the recipients after a failed one are served.
BroadcastSurvivesSendFailure ==
    [][\A c \in Conns :
        /\ FailedBroadcastSend(c)
           => /\ pc'[c] = "bcast"
              /\ bidx'[c] = IF pc[c] = "reply" THEN 2 ELSE bidx[c] + 1
              /\ frame'[c].kind = frame[c].kind
              /\ outcome' = outcome
              /\ active_connections' = active_connections
        /\ (/\ pc[c] = "bcast" /\ bidx'[c] # bidx[c]
            /\ bidx[c] <= Len(active_connections))
           => /\ out' = <<Send(active_connections[bidx[c]],
                               NotificationOf(frame[c]))>>
              /\ pc'[c] = "bcast"]_vars

\* the send to the first recipient has just failed; the loop stands at a
\* second recipient whose transport is open
BroadcastSurvivesSendFailureWitness ==
    \E c \in Conns :
        /\ pc[c] = "bcast"
        /\ \E i \in 1..Len(out) : /\ out[i].msg.type = "notification"
                                   /\ ~out[i].delivered
        /\ bidx[c] = 2
        /\ bidx[c] <= Len(active_connections)
        /\ open[active_connections[bidx[c]]]


\* how many sends of the broadcast of c went to d
TimesSent(c, d) ==
    Cardinality({i \in 1..Len(frame[c].targets) : frame[c].targets[i] = d})

\* C15: when a broadcast ends, whatever connects and disconnects happened
\* between its sends, no connection was sent the message twice, and every
\* connection registered both when it started and when it ends was sent the
\* message exactly once.
BroadcastUnderMembershipChange ==
    [][\A c \in Conns :
        (pc[c] = "bcast" /\ pc'[c] = "recv")
        => \A d \in Conns :
              /\ TimesSent(c, d) <= 1
              /\ (d \in frame[c].snap /\ InList(active_connections, d))
                    => TimesSent(c, d) = 1]_vars


\* the handler of c takes a step that delivers its notification to t
Notifies(c, t) ==
    /\ pc[c] \in {"reply", "bcast"}
    /\ pc'[c] # pc[c] \/ bidx'[c] # bidx[c]
    /\ \E i \in 1..Len(out') : /\ out'[i].msg.type = "notification"
                                /\ out'[i].to = t
                                /\ out'[i].delivered

\* C16: notifications reach every connection in the order of the commits:
\* when a handler delivers its notification to a connection that another
\* handler, still running, has already notified, that other handler
\* committed first.
NotificationsInCommitOrder ==
    [][\A c, d \in Conns : \A t \in Conns :
        (/\ c # d
         /\ Notifies(c, t)
         /\ InList(frame[d].targets, t))
        => frame[d].stamp < frame[c].stamp]_vars


\* C17: from startup on the tool row exists, so that no request is ever
\* answered with the "tool does not exist" reply.
ToolRecordCreatedAtStartup ==
    /\ toolExists
    /\ \A c \in Conns : outcome[c] # "no_tool"


\* the receive loop of c ends
LoopExit(c) == pc[c] # "closed" /\ pc'[c] = "closed"

\* C18: the step in which the receive loop of a connection ends, on a closed
\* transport or on an error that escapes the loop, takes that connection out
\* of the registry and changes nothing else: the other connections keep
\* their registration (in order), loop position and handler locals, and the
\* inventory is untouched.  A connection whose loop has ended handles no
\* further message.
LoopExitDeregistersOnlyItself ==
    [][\A c \in Conns :
        /\ LoopExit(c)
           => /\ pc[c] = "recv"
              /\ ~InList(active_connections', c)
              /\ active_connections' =
                    SelectSeq(active_connections, LAMBDA x : x # c)
              /\ \A d \in Conns \ {c} :
                    /\ pc'[d] = pc[d]
                    /\ frame'[d] = frame[d]
                    /\ bidx'[d] = bidx[d]
                    /\ open'[d] = open[d]
                    /\ outcome'[d] = outcome[d]
              /\ out' = <<>>
              /\ ToolUnchanged
              /\ records' = records
        /\ pc[c] = "closed"
           => /\ pc'[c] = "closed"
              /\ frame'[c] = frame[c]
              /\ outcome'[c] = outcome[c]
              /\ ~InList(active_connections', c)]_vars

\* the loop of a connection registered in front of another has ended on a
\* closed transport, while the handler of the other is in flight
LoopExitDeregistersOnlyItselfWitness ==
    \E c, d \in Conns :
        /\ c < d
        /\ pc[c] = "closed"
        /\ outcome[c] # "not_object"
        /\ active_connections = <<d>>
        /\ pc[d] \in {"reply", "bcast"}


\* C19 (under SpecRegistry): a disconnect of a connection that is not in the
\* registry leaves the registry as it is, and after any disconnect(c) a
\* second disconnect(c) changes nothing.
DisconnectIsIdempotent ==
    [][\A s \in Sockets :
        (call' # call /\ call'.op = "disconnect" /\ call'.conn = s)
        => /\ ~InList(active_connections, s)
                => active_connections' = active_connections
           /\ ~InList(active_connections', s)
           /\ disconnect(active_connections', s) = active_connections'
           /\ disconnect(disconnect(active_connections, s), s)
                = disconnect(active_connections, s)]_vars

\* disconnect has just been called for a connection that was not in a
\* registry holding others
DisconnectIsIdempotentWitness ==
    /\ call.op = "disconnect"
    /\ ~call.registered
    /\ Len(active_connections) >= 2


\* C20: a step in which a send fails, of a reply or of a notification,
\* leaves the registry as it is, the failed recipient included; and whenever
\* a connection leaves the registry, the step is the end of that
\* connection's own receive loop.
SendFailureKeepsRegistration ==
    [][/\ (\E i \in 1..Len(out') : ~out'[i].delivered)
          => active_connections' = active_connections
       /\ \A d \in Conns :
            (InList(active_connections, d) /\ ~InList(active_connections', d))
            => pc[d] = "recv" /\ pc'[d] = "closed"]_vars

\* the reply and the notification to a requester whose transport is closed
\* have both just failed, and the requester is still registered
SendFailureKeepsRegistrationWitness ==
    \E c \in Conns :
        /\ Len(out) = 2
        /\ out[1].to = c /\ ~out[1].delivered
        /\ out[1].msg.type # "notification"
        /\ out[2].to = c /\ ~out[2].delivered
        /\ out[2].msg.type = "notification"
        /\ InList(active_connections, c)


\* C21: get_tool_status answers its sender, and nobody else, with the
\* committed quantity and status, a consistent pair, or with the not-found
\* failure when there is no tool row; it changes no tool state and no
\* history record, and no broadcast follows.
StatusReadIsPure ==
    [][\A c \in Conns :
        /\ (Received(c) /\ frame'[c].action = "get_status")
           => /\ UNCHANGED <<toolVars, records>>
              /\ ~frame'[c].recorded
              /\ out' = <<>>
              /\ IF toolExists
                 THEN /\ frame'[c].kind = "status_ok"
                      /\ ReplyOf(frame'[c]).success
                      /\ frame'[c].new = current_quantity
                      /\ frame'[c].status = status
                      /\ frame'[c].status =
                            CASE frame'[c].new = 0 -> "Empty"
                              [] 0 < frame'[c].new
                                 /\ frame'[c].new <= threshold -> "Low"
                              [] OTHER -> "Normal"
                 ELSE /\ frame'[c].kind = "no_tool"
                      /\ ~ReplyOf(frame'[c]).success
        /\ (Replied(c) /\ frame[c].action = "get_status")
           => /\ out' = <<Send(c, ReplyOf(frame[c]))>>
              /\ frame[c].nbcast = 0
              /\ pc'[c] = "recv"
              /\ UNCHANGED <<toolVars, records>>]_vars

\* a status read taken after a commit has moved the quantity is about to be
\* answered
StatusReadIsPureWitness ==
    \E c \in Conns :
        /\ pc[c] = "reply"
        /\ frame[c].kind = "status_ok"
        /\ last_updated > 0
        /\ current_quantity < total_quantity
        /\ frame[c].new = current_quantity


\* C22: a successful borrow or return commits, then sends the reply, then
\* issues the broadcast, and only then invokes the history collaborator: as
\* long as the reply is waiting to be sent or the broadcast is running, the
\* collaborator has not been called.
HistoryAfterReplyAndBroadcast ==
    \A c \in Conns :
        (/\ pc[c] \in {"reply", "bcast"}
         /\ frame[c].kind \in {"borrow_ok", "return_ok"})
        => ~frame[c].recorded


\* the step reads a message of connection c
Reads(c) ==
    /\ budget' < budget
    /\ <<pc'[c], frame'[c], outcome'[c]>> # <<pc[c], frame[c], outcome[c]>>

\* C23: a message of a connection is read only when that connection's
\* handler is at receive_text with nothing in flight: the reply and the
\* broadcast of its previous message are done.  A read changes the handler
\* state of no other connection.
MessagesHandledInSequence ==
    [][\A c \in Conns :
        Reads(c)
        => /\ pc[c] = "recv"
           /\ frame[c] = NoFrame
           /\ bidx[c] = 0
           /\ \A d \in Conns \ {c} :
                 pc'[d] = pc[d] /\ frame'[d] = frame[d]]_vars

\* one connection, the only one that ever connected, has had its first
\* message handled to the end and its next one read
MessagesHandledInSequenceWitness ==
    \E c \in Conns :
        /\ pc[c] = "reply"
        /\ budget <= MaxMsgs - 2
        /\ \A d \in Conns \ {c} : pc[d] = "new"


\* the error replies built in the "except Exception" branch of a handler
HandlerErrorKinds ==
    {"borrow_error", "return_error", "sensor_error", "status_error"}

\* C24 (under SpecFaults): a request whose handling raises is answered with
\* exactly one reply, of type "error", to its sender, who stays registered
\* with its loop running; the request has changed no committed tool state
\* and no broadcast follows.
InternalErrorIsContained ==
    [][\A c \in Conns :
        /\ (Received(c) /\ frame'[c].kind \in HandlerErrorKinds)
           => /\ ToolUnchanged
              /\ active_connections' = active_connections
              /\ InList(active_connections', c)
              /\ ~Broadcasts(frame'[c])
              /\ ReplyOf(frame'[c]).type = "error"
        /\ (Replied(c) /\ frame[c].kind \in HandlerErrorKinds)
           => /\ out' = <<Send(c, ReplyOf(frame[c]))>>
              /\ out'[1].msg.type = "error"
              /\ pc'[c] = "recv"
              /\ ToolUnchanged
              /\ InList(active_connections', c)]_vars


\* C25: a sensor_update with a weight, on a tool whose stored unit_weight is
\* <= 0, is accepted: the default unit_weight is stored and the quantity
\* committed is the one computed with the default; a positive unit_weight is
\* kept, so after an accepted sensor_update the stored unit_weight is > 0.
SensorHealsUnitWeight ==
    [][\A c \in Conns :
        (/\ Received(c)
         /\ toolExists
         /\ frame'[c].action = "sensor_update"
         /\ frame'[c].has)
        => /\ frame'[c].kind = "sensor_ok"
           /\ unit_weight' > 0
           /\ unit_weight > 0 => unit_weight' = unit_weight
           /\ unit_weight <= 0
                => /\ unit_weight' = DefaultUnitWeight
                   /\ frame'[c].healed
                   /\ LET floor == frame'[c].arg \div DefaultUnitWeight IN
                      current_quantity' =
                        IF floor < 0 THEN 0
                        ELSE IF floor > total_quantity THEN total_quantity
                        ELSE floor]_vars

\* a sensor_update that found unit_weight <= 0 has committed three units for
\* 350 g, and the default unit_weight is stored
SensorHealsUnitWeightWitness ==
    \E c \in Conns :
        /\ pc[c] = "reply"
        /\ frame[c].kind = "sensor_ok"
        /\ frame[c].healed
        /\ frame[c].arg = 350
        /\ current_quantity = 3
        /\ unit_weight = DefaultUnitWeight


\* the receive loop of c is running
LoopRunning(c) == pc[c] \in {"recv", "reply", "bcast"}

\* C26: a connection is in the registry once while its receive loop runs
\* and not at all before connect has returned or after the loop has exited;
\* no notification is sent to a connection whose loop has exited.
RegistryMatchesLoops ==
    /\ \A c \in Conns :
         Cardinality({i \in 1..Len(active_connections) :
                         active_connections[i] = c})
           = IF LoopRunning(c) THEN 1 ELSE 0
    /\ \A i \in 1..Len(out) :
         out[i].msg.type = "notification" => LoopRunning(out[i].to)

\* one loop has exited and its connection is out of the registry; a
\* broadcast has just sent to the other, which is registered
RegistryMatchesLoopsWitness ==
    \E c, d \in Conns :
        /\ pc[c] = "closed"
        /\ active_connections = <<d>>
        /\ \E i \in 1..Len(out) : /\ out[i].msg.type = "notification"
                                   /\ out[i].to = d


\* C27: a borrow_tool or return_tool without a quantity field, on an
\* existing tool, is handled as a request for one unit and never rejected as
\* invalid: when the stock (the capacity) allows, exactly one unit is
\* committed and the reply is the success reply (unless the history
\* collaborator has invalidated the session, the case of C11); otherwise the
\* reply is the insufficient-stock (would-exceed-capacity) failure and nothing
\* changes.
MissingQuantityMeansOne ==
    [][\A c \in Conns :
        (/\ Received(c)
         /\ toolExists
         /\ frame'[c].action \in {"borrow_tool", "return_tool"}
         /\ ~frame'[c].has)
        => LET borrow == frame'[c].action = "borrow_tool"
               allowed == IF borrow THEN current_quantity >= 1
                          ELSE current_quantity + 1 <= total_quantity
           IN /\ frame'[c].arg = 1
              /\ frame'[c].kind # "invalid_quantity"
              /\ IF allowed
                 THEN /\ current_quantity' =
                            IF borrow THEN current_quantity - 1
                            ELSE current_quantity + 1
                      /\ frame'[c].history # "session_invalid"
                            => /\ frame'[c].kind =
                                    IF borrow THEN "borrow_ok" ELSE "return_ok"
                               /\ ReplyOf(frame'[c]).success
                 ELSE /\ frame'[c].kind =
                            IF borrow THEN "insufficient" ELSE "exceed"
                      /\ ~ReplyOf(frame'[c]).success
                      /\ ToolUnchanged]_vars

\* a borrow_tool without a quantity field has taken one unit and is about to
\* be answered with success
MissingQuantityMeansOneWitness ==
    \E c \in Conns :
        /\ pc[c] = "reply"
        /\ frame[c].kind = "borrow_ok"
        /\ ~frame[c].has
        /\ frame[c].arg = 1
        /\ current_quantity = frame[c].old - 1


\* the positions of the open borrow records
OpenBorrows(recs) ==
    {i \in 1..Len(recs) : recs[i].action = "borrow" /\ recs[i].open}

\* recs with one record added at the end
Extends(after, recs, r) ==
    /\ Len(after) = Len(recs) + 1
    /\ SubSeq(after, 1, Len(recs)) = recs
    /\ after[Len(after)] = r

\* C28 (under SpecHistory): create_borrow_record adds one open borrow record
\* and touches no other; create_return_record closes the most recent open
\* borrow record, relabelled "return" with its own quantity kept, and
\* touches no other, or adds one closed return record when no borrow record
\* is open.  So the table never shrinks, and the number of open borrow
\* records goes up by one with each borrow and down by one with each return
\* that found an open record.
HistoryRecordingIsExact ==
    [][(call' # call \/ records' # records)
       => LET q == call'.conn
              was == OpenBorrows(records)
              now == OpenBorrows(records')
          IN /\ Len(records') >= Len(records)
             /\ IF call'.op = "create_borrow_record"
                THEN /\ Extends(records', records,
                           [action |-> "borrow", quantity |-> q, open |-> TRUE])
                     /\ Cardinality(now) = Cardinality(was) + 1
                ELSE IF was # {}
                THEN LET k == CHOOSE i \in was : \A j \in was : j <= i IN
                     /\ call'.registered
                     /\ Len(records') = Len(records)
                     /\ \A i \in 1..Len(records) :
                           i # k => records'[i] = records[i]
                     /\ records'[k] = [action |-> "return",
                                       quantity |-> records[k].quantity,
                                       open |-> FALSE]
                     /\ now = was \ {k}
                ELSE /\ ~call'.registered
                     /\ Extends(records', records,
                           [action |-> "return", quantity |-> q, open |-> FALSE])
                     /\ now = {}]_vars

\* of two open borrow records the later one, a borrow of two units, has
\* just been closed by a return of one unit
HistoryRecordingIsExactWitness ==
    /\ call.op = "create_return_record"
    /\ call.registered
    /\ call.conn = 1
    /\ records = <<[action |-> "borrow", quantity |-> 1, open |-> TRUE],
                   [action |-> "return", quantity |-> 2, open |-> FALSE]>>

====
